---- MODULE Spec2Model ----
(***************************************************************************)
(* FloatChat (src/app.py): a Streamlit script that is re-executed from top *)
(* to bottom once per user interaction.  One execution of the script is    *)
(* one cycle; the state that survives between cycles is                    *)
(*   - st.session_state (the keys "last_query" and "messages"),            *)
(*   - the values of the widgets that were rendered by the last cycle.     *)
(*                                                                         *)
(* Conventions of the model                                                *)
(*   - a text is a sequence of string tokens; the empty text is << >> and  *)
(*     an f-string is the concatenation of its literal parts and of the    *)
(*     interpolated values.  Emoji of the source literals are written as   *)
(*     shortcodes (":robot:") because the module is ASCII;                 *)
(*   - a float with one decimal is the integer number of tenths;           *)
(*   - a pandas Timestamp is the record of its fields, compared            *)
(*     field by field (year, month, day, time of day);                     *)
(*   - a DataFrame is the sequence of its rows, a row a record.            *)
(*                                                                         *)
(* Framework behaviour the model relies on (Streamlit):                    *)
(*   - a cycle is triggered by exactly one widget interaction, so at most  *)
(*     one button reads True in a cycle, and a button can only be pressed  *)
(*     if the previous cycle rendered it;                                  *)
(*   - the value of a widget that a cycle does not render is dropped: the  *)
(*     widget is back at its default when it is rendered again;            *)
(*   - st.date_input with a two-element default returns a tuple of one     *)
(*     date while the user has picked only the start of the range;         *)
(*   - the display calls themselves (st.write, st.image, plotly) succeed.  *)
(***************************************************************************)
EXTENDS Integers, Sequences, FiniteSets, TLC

VARIABLES
    user_role,      \* st.selectbox "Select Role"            (line 35)
    menu,           \* st.radio "Navigation"                 (line 38)
    user_query,     \* st.text_input "Ask:"                  (line 46)
    date_range,     \* st.date_input "Select Date Range"     (line 137)
    param,          \* st.selectbox "Choose Parameter"       (line 141)
    session_state,  \* st.session_state: a function on the keys present
    sample_data,    \* the module global built by lines 10-17 of the cycle
    pressed,        \* the buttons that read True in the last cycle
    rendered        \* what the last cycle handed to the rendering surface

vars == <<user_role, menu, user_query, date_range, param,
          session_state, sample_data, pressed, rendered>>

\* The longest conversation log the model explores.
MaxLog == 4

----------------------------------------------------------------------------
(* Widget domains                                                          *)

Roles == {"Student", "Researcher", "Policy Maker"}
DefaultRole == "Student"

Menus == {"Chatbot", "Explore Data", "Visualizations", "Query History"}
DefaultMenu == "Chatbot"

Params == {"salinity", "temperature"}
DefaultParam == "salinity"

AskButton == "Ask"
MarchButton == "Show floats in March 2023"
SalinityButton == "Show salinity profiles"
TemperatureButton == "Show temperature trends"
QuickButtons == {MarchButton, SalinityButton, TemperatureButton}

\* The texts typed into the "Ask:" box: the empty text and one question.
Texts == { << >>, <<"where is ARGO003?">> }
DefaultText == << >>

----------------------------------------------------------------------------
(* Dates and timestamps                                                    *)

Date(y, m, d) == [year |-> y, month |-> m, day |-> d]

\* pd.to_datetime of a date (or of an ISO date string): midnight of that day.
to_datetime(d) == [year |-> d.year, month |-> d.month, day |-> d.day, time |-> 0]

\* Timestamp comparison, as the comparison of the instants.
TsLt(a, b) ==
    \/ a.year < b.year
    \/ a.year = b.year /\ a.month < b.month
    \/ a.year = b.year /\ a.month = b.month /\ a.day < b.day
    \/ a.year = b.year /\ a.month = b.month /\ a.day = b.day /\ a.time < b.time

TsGe(a, b) == ~TsLt(a, b)
TsLe(a, b) == ~TsLt(b, a)

\* The dates picked in the date-range selector.
Dates == { Date(2022, 12, 31), Date(2023, 3, 1), Date(2023, 3, 5),
           Date(2023, 3, 25), Date(2023, 3, 31), Date(2023, 4, 2),
           Date(2024, 1, 15) }

DefaultDateRange == << Date(2023, 3, 1), Date(2023, 3, 31) >>

\* What st.date_input returns: a complete range or only its start.
DateRanges == { <<a, b>> : a \in Dates, b \in Dates } \cup { <<a>> : a \in Dates }

\* The ranges picked in sessions that also use the conversation: the default,
\* a range whose bounds are dates of rows, an inverted range, a start alone.
SessionDateRanges ==
    { DefaultDateRange, << Date(2023, 3, 5), Date(2023, 4, 2) >>,
      << Date(2023, 4, 2), Date(2023, 3, 1) >>, << Date(2023, 3, 25) >> }

----------------------------------------------------------------------------
(* Fake data                                                               *)

Row(id, lat, lon, date, sal, temp) ==
    [float_id |-> id, lat |-> lat, lon |-> lon, date |-> to_datetime(date),
     salinity |-> sal, temperature |-> temp]

SampleData ==
    << Row("ARGO001",  12, 335, Date(2023, 3,  5), 351, 283),
       Row("ARGO002", -21, 350, Date(2023, 3, 12), 349, 278),
       Row("ARGO003",   5, 728, Date(2023, 3, 20), 353, 285),
       Row("ARGO004", 150, 601, Date(2023, 4,  2), 361, 264),
       Row("ARGO005", -45, 500, Date(2023, 3, 25), 348, 280) >>

(* pandas: df[mask] keeps the rows whose mask entry is True, in row order. *)
BoolIndex(df, mask) ==
    LET F[i \in 0..Len(df)] ==
            IF i = 0 THEN << >>
            ELSE IF mask[i] THEN Append(F[i - 1], df[i]) ELSE F[i - 1]
    IN  F[Len(df)]

\* mask1 & mask2, element by element
MaskAnd(m1, m2) == [i \in DOMAIN m1 |-> m1[i] /\ m2[i]]

\* df.set_index("date")[col]: the series of col indexed by date, in row order
SetIndexColumn(df, col) ==
    [i \in 1..Len(df) |-> [index |-> df[i].date, value |-> df[i][col]]]

----------------------------------------------------------------------------
(* Session state and messages                                              *)

FreshSession == [k \in {} |-> << >>]

\* st.session_state[k] = v
SetItem(ss, k, v) == [x \in (DOMAIN ss) \cup {k} |-> IF x = k THEN v ELSE ss[x]]

Message(role, content) == [role |-> role, content |-> content]

\* Variant: the message is inserted at the front of the list.
AppendMessage_AtFront(ss, msg) == SetItem(ss, "messages", <<msg>> \o ss["messages"])

\* st.session_state["messages"].append(msg)
AppendMessage(ss, msg) == SetItem(ss, "messages", Append(ss["messages"], msg))

\* Variant: the list is reset on every visit of the page.
EnsureMessages_Reset(ss) == SetItem(ss, "messages", << >>)

\* Variant: the page does not create the list.
EnsureMessages_Skip(ss) == ss

\* The Chatbot page's
\* if "messages" not in st.session_state: st.session_state["messages"] = []
EnsureMessages(ss) ==
    IF "messages" \notin DOMAIN ss THEN SetItem(ss, "messages", << >>) ELSE ss

\* Variant: the role is not interpolated.
Response_NoRole(role, query) ==
    <<":robot: (Demo) Hi ", "Student", ", here's some placeholder data for: ">> \o query

\* The f-string of the demo reply.
Response(role, query) ==
    <<":robot: (Demo) Hi ", role, ", here's some placeholder data for: ">> \o query

\* Variant: the reply is never appended.
AskHandler_NoReply(ss, role, query) ==
    LET s1 == SetItem(ss, "last_query", query)
        s2 == IF "messages" \notin DOMAIN s1 THEN SetItem(s1, "messages", << >>) ELSE s1
    IN  SetItem(s2, "messages", Append(s2["messages"], Message("user", query)))

\* Variant: an empty text is rejected, nothing is appended.
AskHandler_RejectEmpty(ss, role, query) ==
    LET s1 == SetItem(ss, "last_query", query)
        s2 == IF "messages" \notin DOMAIN s1 THEN SetItem(s1, "messages", << >>) ELSE s1
    IN  IF query = << >> THEN s2
        ELSE SetItem(s2, "messages",
                     s2["messages"] \o << Message("user", query),
                                          Message("assistant",
                                                  <<":robot: (Demo) Hi ", role,
                                                    ", here's some placeholder data for: ">>
                                                  \o query) >>)

\* The body of `if st.button("Ask")`.
AskHandler(ss, role, query) ==
    LET s1 == SetItem(ss, "last_query", query)
        s2 == IF "messages" \notin DOMAIN s1 THEN SetItem(s1, "messages", << >>) ELSE s1
        s3 == AppendMessage(s2, Message("user", query))
        response == Response(role, query)
    IN  AppendMessage(s3, Message("assistant", response))

\* The sidebar block: the only part of it that changes state is the Ask button.
Sidebar(ss, role, query, buttons) ==
    IF AskButton \in buttons THEN AskHandler(ss, role, query) ELSE ss

----------------------------------------------------------------------------
(* What a cycle displays                                                   *)

Blank(page) ==
    [page |-> page, error |-> "none", chat |-> << >>, quick |-> << >>,
     table |-> << >>, chart_y |-> "", history |-> << >>, info |-> ""]


(* Chatbot page ---------------------------------------------------------- *)

\* One chat bubble of the history loop: the message, and for an assistant
\* message the whole table (st.dataframe(sample_data)) and the geo scatter.
ChatBubble(msg, data) ==
    [role |-> msg.role, content |-> msg.content,
     dataframe |-> IF msg.role = "assistant" THEN data ELSE << >>]

\* for msg in st.session_state["messages"]: ...
DisplayHistory(messages, data) ==
    [i \in 1..Len(messages) |-> ChatBubble(messages[i], data)]

\* Variant: every month from March on.
MarchMask_FromMarch(df) == [i \in 1..Len(df) |-> df[i].date.month >= 3]

\* sample_data["date"].dt.month == 3
MarchMask(df) == [i \in 1..Len(df) |-> df[i].date.month = 3]

\* st.dataframe(sample_data[sample_data["date"].dt.month == 3])
MarchView(data) == [kind |-> "dataframe", data |-> BoolIndex(data, MarchMask(data))]

\* Variant: the salinity button charts the temperature column.
SalinityView_Temperature(data) ==
    [kind |-> "line_chart",
     data |-> [i \in 1..Len(data) |-> [index |-> data[i].date, value |-> data[i].temperature]]]

\* st.line_chart(sample_data.set_index("date")["salinity"])
SalinityView(data) == [kind |-> "line_chart", data |-> SetIndexColumn(data, "salinity")]

\* st.line_chart(sample_data.set_index("date")["temperature"])
TemperatureView(data) == [kind |-> "line_chart", data |-> SetIndexColumn(data, "temperature")]

MarchContent == <<"Showing floats for March 2023 (Demo).">>
SalinityContent == <<"Showing salinity profiles (Demo).">>
TemperatureContent == <<"Showing temperature trends (Demo).">>

\* The three `if cols[k].button(...)` statements, one after the other.  q has
\* the session state so far and the views displayed so far.
QuickQueries(ss, data, buttons) ==
    LET q0 == [ss |-> ss, views |-> << >>]
        q1 == IF MarchButton \in buttons
              THEN [ss |-> AppendMessage(q0.ss, Message("assistant", MarchContent)),
                    views |-> Append(q0.views, MarchView(data))]
              ELSE q0
        q2 == IF SalinityButton \in buttons
              THEN [ss |-> AppendMessage(q1.ss, Message("assistant", SalinityContent)),
                    views |-> Append(q1.views, SalinityView(data))]
              ELSE q1
    IN  IF TemperatureButton \in buttons
        THEN [ss |-> AppendMessage(q2.ss, Message("assistant", TemperatureContent)),
              views |-> Append(q2.views, TemperatureView(data))]
        ELSE q2

\* if menu == "Chatbot": the history is displayed first, the quick-query
\* buttons are handled after it.  Reading st.session_state["messages"] when
\* the key is missing raises KeyError and ends the cycle.
ChatbotPage(ss, data, buttons) ==
    LET s0 == EnsureMessages(ss)
    IN  IF "messages" \notin DOMAIN s0
        THEN [ss |-> s0, out |-> [Blank("Chatbot") EXCEPT !.error = "KeyError"]]
        ELSE LET chat == DisplayHistory(s0["messages"], data)
                 q == QuickQueries(s0, data, buttons)
             IN  [ss |-> q.ss,
                  out |-> [Blank("Chatbot") EXCEPT !.chat = chat, !.quick = q.views]]

(* Explore Data page ----------------------------------------------------- *)

\* Variant: the end of the range is excluded.
DateRangeMask_ExclusiveEnd(df, start, end) ==
    [i \in 1..Len(df) |-> /\ ~TsLt(df[i].date, to_datetime(start))
                          /\ TsLt(df[i].date, to_datetime(end))]

\* (sample_data["date"] >= pd.to_datetime(date_range[0])) &
\* (sample_data["date"] <= pd.to_datetime(date_range[1]))
DateRangeMask(df, start, end) ==
    MaskAnd([i \in 1..Len(df) |-> TsGe(df[i].date, to_datetime(start))],
            [i \in 1..Len(df) |-> TsLe(df[i].date, to_datetime(end))])

\* elif menu == "Explore Data": date_range[1] raises IndexError while only the
\* start of the range is picked.
ExplorePage(ss, data, dr, p) ==
    IF Len(dr) < 2
    THEN [ss |-> ss, out |-> [Blank("Explore Data") EXCEPT !.error = "IndexError"]]
    ELSE LET filtered == BoolIndex(data, DateRangeMask(data, dr[1], dr[2]))
         IN  [ss |-> ss,
              out |-> [Blank("Explore Data") EXCEPT !.table = filtered, !.chart_y = p]]

(* Visualizations page --------------------------------------------------- *)

\* elif menu == "Visualizations": three charts of the whole table.
VisualizationsPage(ss, data) ==
    [ss |-> ss, out |-> [Blank("Visualizations") EXCEPT !.table = data]]

(* Query History page ---------------------------------------------------- *)

\* role = "User" if msg["role"] == "user" else "Bot"; st.write(f"{role}: {content}")
HistoryLine(msg) ==
    <<IF msg.role = "user" THEN ":adult: User" ELSE ":robot: Bot", ": ">> \o msg.content

\* elif menu == "Query History"
QueryHistoryPage(ss) ==
    IF "messages" \in DOMAIN ss /\ ss["messages"] # << >>
    THEN [ss |-> ss,
          out |-> [Blank("Query History") EXCEPT
                      !.history = [i \in 1..Len(ss["messages"]) |->
                                      HistoryLine(ss["messages"][i])]]]
    ELSE [ss |-> ss, out |-> [Blank("Query History") EXCEPT !.info = "No queries yet."]]

----------------------------------------------------------------------------
(* One execution of the script                                             *)

Script(ss, role, m, query, dr, p, buttons) ==
    LET data == SampleData
        s1 == Sidebar(ss, role, query, buttons)
        page == CASE m = "Chatbot" -> ChatbotPage(s1, data, buttons)
                  [] m = "Explore Data" -> ExplorePage(s1, data, dr, p)
                  [] m = "Visualizations" -> VisualizationsPage(s1, data)
                  [] m = "Query History" -> QueryHistoryPage(s1)
    IN  [session_state |-> page.ss, sample_data |-> data, rendered |-> page.out]

\* The cycle triggered by an interaction that leaves the widgets at
\* (role, m, query, dr, p) with `buttons` reading True.  The range and
\* parameter selectors keep a value only while the Explore Data page
\* renders them.
Cycle(role, m, query, dr, p, buttons) ==
    LET r == Script(session_state, role, m, query, dr, p, buttons)
    IN  /\ user_role' = role
        /\ menu' = m
        /\ user_query' = query
        /\ date_range' = IF m = "Explore Data" THEN dr ELSE DefaultDateRange
        /\ param' = IF m = "Explore Data" THEN p ELSE DefaultParam
        /\ pressed' = buttons
        /\ session_state' = r.session_state
        /\ sample_data' = r.sample_data
        /\ rendered' = r.rendered

\* The conversation log, an absent one read as empty.
Log(ss) == IF "messages" \in DOMAIN ss THEN ss["messages"] ELSE << >>

----------------------------------------------------------------------------
(* The session: the first cycle runs with every widget at its default and  *)
(* no button pressed; every later cycle is one interaction.                *)

Init ==
    LET r == Script(FreshSession, DefaultRole, DefaultMenu, DefaultText,
                    DefaultDateRange, DefaultParam, {})
    IN  /\ user_role = DefaultRole
        /\ menu = DefaultMenu
        /\ user_query = DefaultText
        /\ date_range = DefaultDateRange
        /\ param = DefaultParam
        /\ pressed = {}
        /\ session_state = r.session_state
        /\ sample_data = r.sample_data
        /\ rendered = r.rendered

SelectRole ==
    \E r \in Roles \ {user_role} :
        Cycle(r, menu, user_query, date_range, param, {})

Navigate ==
    \E m \in Menus \ {menu} :
        Cycle(user_role, m, user_query, DefaultDateRange, DefaultParam, {})

TypeQuery ==
    \E t \in Texts \ {user_query} :
        Cycle(user_role, menu, t, date_range, param, {})

PressAsk ==
    /\ Len(Log(session_state)) + 2 <= MaxLog
    /\ Cycle(user_role, menu, user_query, date_range, param, {AskButton})

PressQuickQuery ==
    /\ menu = "Chatbot"
    /\ rendered.page = "Chatbot" /\ rendered.error = "none"
    /\ Len(Log(session_state)) + 1 <= MaxLog
    /\ \E b \in QuickButtons :
           Cycle(user_role, menu, user_query, date_range, param, {b})

PickDateRange(ranges) ==
    /\ menu = "Explore Data"
    /\ \E dr \in ranges \ {date_range} :
           Cycle(user_role, menu, user_query, dr, param, {})

ChooseParam ==
    /\ menu = "Explore Data"
    /\ \E p \in Params \ {param} :
           Cycle(user_role, menu, user_query, date_range, p, {})

\* A rerun with nothing changed (the browser's "Rerun").
Rerun == Cycle(user_role, menu, user_query, date_range, param, {})

Next ==
    \/ SelectRole
    \/ Navigate
    \/ TypeQuery
    \/ PressAsk
    \/ PressQuickQuery
    \/ PickDateRange(SessionDateRanges)
    \/ ChooseParam
    \/ Rerun

Spec == Init /\ [][Next]_vars

\* The Explore Data page alone, over every range of Dates.
NextExplore ==
    \/ SelectRole
    \/ Navigate
    \/ PickDateRange(DateRanges)
    \/ ChooseParam

SpecExplore == Init /\ [][NextExplore]_vars

----------------------------------------------------------------------------
(* Properties                                                              *)

\* The (role, content) pairs of the bubbles a Chatbot page displayed.
Displayed(chat) == [i \in 1..Len(chat) |-> Message(chat[i].role, chat[i].content)]

\* The number of messages the buttons of a cycle append.
Appended(buttons) ==
    (IF AskButton \in buttons THEN 2 ELSE 0) + Cardinality(buttons \cap QuickButtons)

\* The reply template, written out.
Reply(role, text) ==
    <<":robot: (Demo) Hi ", role, ", here's some placeholder data for: ">> \o text

\* A date or timestamp as the number yyyymmdd.
DayKey(d) == d.year * 10000 + d.month * 100 + d.day

Last(seq) == seq[Len(seq)]

\* C1: the conversation log only grows at its end.  In every cycle the new
\* log is the old log followed by exactly the messages of the buttons pressed
\* (two for Ask, one per quick query); the Chatbot page displays the log as
\* it was when the page read it (the new log without the quick-query message
\* of the same cycle) and the Query History page displays one line per
\* message of the new log, in order.
C1_LogAppendOnly ==
    [][ LET old == Log(session_state)
            new == Log(session_state')
        IN  /\ Len(new) = Len(old) + Appended(pressed')
            /\ SubSeq(new, 1, Len(old)) = old
            /\ rendered'.page = "Chatbot" =>
                   Displayed(rendered'.chat)
                       = SubSeq(new, 1, Len(new) - Cardinality(pressed' \cap QuickButtons))
            /\ rendered'.page = "Query History" =>
                   /\ Len(rendered'.history) = Len(new)
                   /\ \A i \in 1..Len(new) :
                          rendered'.history[i]
                              = << IF new[i].role = "user" THEN ":adult: User"
                                                           ELSE ":robot: Bot", ": " >>
                                \o new[i].content
      ]_vars

C1_Witness ==
    /\ rendered.page = "Query History"
    /\ Len(rendered.history) = 3
    /\ Log(session_state)[1] = Message("assistant", SalinityContent)
    /\ Log(session_state)[2].role = "user"

\* C2: a cycle in which Ask is pressed with role R and a non-empty text T
\* raises nothing outside the Explore Data page and extends the log by exactly the User message T followed
\* by the Assistant message "Hi R, here's some placeholder data for: T".
C2_SubmitQuery ==
    [][ (AskButton \in pressed' /\ user_query' # << >>) =>
            /\ rendered'.page # "Explore Data" => rendered'.error = "none"
            /\ Log(session_state')
                   = Log(session_state)
                       \o << Message("user", user_query'),
                             Message("assistant", Reply(user_role', user_query')) >>
      ]_vars

C2_Witness ==
    /\ AskButton \in pressed
    /\ user_query # << >>
    /\ user_role = "Researcher"
    /\ Len(Log(session_state)) = 3
    /\ Last(Log(session_state)) = Message("assistant", Reply("Researcher", user_query))

\* C3: a cycle in which a quick-query button is pressed extends the log by
\* exactly one Assistant message with the fixed content of the topic and
\* displays the matching view: rows 1, 2, 3 and 5 for March 2023, the
\* salinity of all 5 rows indexed by date, the temperature of all 5 rows
\* indexed by date.
C3_QuickQuery ==
    [][ LET sd == sample_data'
            series(col) == [i \in 1..5 |-> [index |-> sd[i].date, value |-> sd[i][col]]]
            grows(content) ==
                Log(session_state') = Append(Log(session_state), Message("assistant", content))
        IN  /\ Len(sd) = 5
            /\ MarchButton \in pressed' =>
                   /\ grows(<<"Showing floats for March 2023 (Demo).">>)
                   /\ rendered'.quick
                          = << [kind |-> "dataframe", data |-> <<sd[1], sd[2], sd[3], sd[5]>>] >>
            /\ SalinityButton \in pressed' =>
                   /\ grows(<<"Showing salinity profiles (Demo).">>)
                   /\ rendered'.quick = << [kind |-> "line_chart", data |-> series("salinity")] >>
                   /\ [i \in 1..5 |-> rendered'.quick[1].data[i].value]
                          = <<351, 349, 353, 361, 348>>
            /\ TemperatureButton \in pressed' =>
                   /\ grows(<<"Showing temperature trends (Demo).">>)
                   /\ rendered'.quick = << [kind |-> "line_chart", data |-> series("temperature")] >>
                   /\ [i \in 1..5 |-> rendered'.quick[1].data[i].value]
                          = <<283, 278, 285, 264, 280>>
      ]_vars

C3_Witness ==
    /\ pressed = {SalinityButton}
    /\ Len(rendered.quick) = 1
    /\ Len(Log(session_state)) = 2
    /\ Log(session_state)[1] = Message("assistant", MarchContent)
    /\ Log(session_state)[2] = Message("assistant", SalinityContent)

\* C4: in a cycle that appends to the log, the conversation that the cycle
\* displays is the log including the messages the cycle appended.
C4_AppendThenRedisplay ==
    pressed # {} =>
        /\ rendered.page = "Chatbot" => Displayed(rendered.chat) = Log(session_state)
        /\ rendered.page = "Query History" =>
               Len(rendered.history) = Len(Log(session_state))

\* C5: the table displayed for "Show floats in March 2023" holds exactly the
\* rows of the sample data dated in year 2023 and month 3, in row order: the
\* rows of 2023-03-05, 2023-03-12, 2023-03-20 and 2023-03-25, without ARGO004.
C5_FilterByMonth ==
    MarchButton \in pressed =>
        LET rows == rendered.quick[1].data
            in2023_03(r) == r.date.year = 2023 /\ r.date.month = 3
        IN  /\ rows = SelectSeq(sample_data, in2023_03)
            /\ [i \in 1..Len(rows) |-> DayKey(rows[i].date)]
                   = <<20230305, 20230312, 20230320, 20230325>>
            /\ \A i \in 1..Len(rows) : rows[i].float_id # "ARGO004"

C5_Witness ==
    /\ MarchButton \in pressed
    /\ Len(rendered.quick) = 1
    /\ Len(rendered.quick[1].data) = 4

\* C6: for every complete range (start, end) the Explore Data page raises
\* nothing and its table holds exactly the rows with start <= date <= end,
\* in row order; an inverted range gives the empty table; the default range
\* 2023-03-01..2023-03-31 gives rows 1, 2, 3 and 5.
C6_FilterByDateRange ==
    (rendered.page = "Explore Data" /\ Len(date_range) = 2) =>
        LET lo == DayKey(date_range[1])
            hi == DayKey(date_range[2])
            within(r) == lo <= DayKey(r.date) /\ DayKey(r.date) <= hi
        IN  /\ rendered.error = "none"
            /\ rendered.table = SelectSeq(sample_data, within)
            /\ hi < lo => rendered.table = << >>
            /\ date_range = << Date(2023, 3, 1), Date(2023, 3, 31) >> =>
                   rendered.table = << sample_data[1], sample_data[2],
                                       sample_data[3], sample_data[5] >>

C6_Witness ==
    /\ rendered.page = "Explore Data"
    /\ date_range = << Date(2023, 3, 5), Date(2023, 3, 25) >>
    /\ Len(rendered.table) = 4

\* C7: a cycle in which no button is pressed leaves the sequence of messages
\* unchanged, and no cycle changes the sample data.
C7_TwoProducers ==
    [][ /\ pressed' = {} => Log(session_state') = Log(session_state)
        /\ sample_data' = sample_data
      ]_vars

C7_Witness ==
    /\ pressed = {}
    /\ menu = "Explore Data"
    /\ date_range = << Date(2023, 4, 2), Date(2023, 3, 1) >>
    /\ param = "temperature"
    /\ user_role = "Policy Maker"
    /\ Len(Log(session_state)) = 3

\* C8: no cycle reads or appends to a missing log (no KeyError), the log
\* exists after every cycle, the Query History page shows "No queries yet."
\* exactly when the log is absent or empty, and on a session without the key
\* the Ask handler and the Chatbot page create the log before using it.
C8_LogPresent ==
    /\ rendered.error # "KeyError"
    /\ "messages" \in DOMAIN session_state
    /\ rendered.page = "Query History" =>
           /\ rendered.info = "No queries yet." <=> Log(session_state) = << >>
           /\ rendered.history = << >> <=> Log(session_state) = << >>
    /\ QueryHistoryPage(FreshSession).out.info = "No queries yet."
    /\ \A r \in Roles, t \in Texts :
           Len(Log(Sidebar(FreshSession, r, t, {AskButton}))) = 2
    /\ \A b \in QuickButtons :
           LET page == ChatbotPage(FreshSession, sample_data, {b})
           IN  page.out.error = "none" /\ Len(Log(page.ss)) = 1

C8_Witness ==
    /\ pressed \cap QuickButtons # {}
    /\ rendered.error = "none"
    /\ Len(Log(session_state)) = 1

\* C9: every User message of the log is immediately followed by an Assistant
\* message that is the reply template applied to some role and to the text of
\* that User message; a non-empty log ends with an Assistant message and the
\* log has at least as many Assistant messages as User messages.
C9_UserThenReply ==
    LET log == Log(session_state)
        count(role) == Cardinality({i \in 1..Len(log) : log[i].role = role})
    IN  /\ \A i \in 1..Len(log) :
               log[i].role = "user" =>
                   /\ i < Len(log)
                   /\ log[i + 1].role = "assistant"
                   /\ \E r \in Roles : log[i + 1].content = Reply(r, log[i].content)
        /\ log # << >> => Last(log).role = "assistant"
        /\ count("assistant") >= count("user")

C9_Witness ==
    LET log == Log(session_state)
    IN  /\ Len(log) = 4
        /\ log[1] = Message("assistant", TemperatureContent)
        /\ log[2].role = "user"
        /\ log[4] = Message("assistant", MarchContent)

\* C10: a cycle in which Ask is pressed with the empty text raises no error
\* of its own (the only error of such a cycle is the Explore Data page's
\* IndexError on an incomplete range) and extends the log by the User message with empty content followed by the
\* Assistant message of the template applied to the empty text.
C10_EmptyQuery ==
    [][ (AskButton \in pressed' /\ user_query' = << >>) =>
            /\ rendered'.error \in {"none", "IndexError"}
            /\ rendered'.error = "IndexError" => Len(date_range') < 2
            /\ Len(Log(session_state')) = Len(Log(session_state)) + 2
            /\ Log(session_state')
                   = Log(session_state)
                       \o << Message("user", << >>),
                             Message("assistant",
                                     <<":robot: (Demo) Hi ", user_role',
                                       ", here's some placeholder data for: ">>) >>
      ]_vars

C10_Witness ==
    /\ AskButton \in pressed
    /\ user_query = << >>
    /\ Len(Log(session_state)) = 3
    /\ Log(session_state)[1] = Message("assistant", SalinityContent)
    /\ Log(session_state)[2] = Message("user", << >>)

====
